---------------------------- MODULE Spec2Model ----------------------------
(***************************************************************************)
(* Model of the round state machine of Minimal/main.cpp (class ExampleApp): *)
(* ExampleApp::renderScene, ExampleApp::random_Highlight and the frame     *)
(* loop of GlfwApp::run.                                                   *)
(*                                                                         *)
(* Time is the reading of std::clock() in whole seconds.  Distances are in *)
(* millimetres (0.055f metres = 55).  The cursor-to-target distance of     *)
(* line 864 is an input of the call: it is computed from the hand pose and *)
(* from LHOrientationPosition, both of which come from the VR runtime (the *)
(* first ovr_GetInputState guard, lines 815-837, only decides which        *)
(* transform enters that distance).                                        *)
(*                                                                         *)
(* One call of renderScene is three steps: Poll fixes what the clock and   *)
(* the runtime will answer during the call, RenderScene is the whole call, *)
(* EndCall is its return.  All writes of the call are in RenderScene.      *)
(*                                                                         *)
(* Spec is the sequence of the calls of renderScene; SpecFrame groups them *)
(* in the frames of RiftApp::draw, one call per eye.  SpecPick and         *)
(* SpecPickTwice are random_Highlight as one step, SpecDraw is             *)
(* random_Highlight statement by statement beside the wall clock.          *)
(***************************************************************************)
EXTENDS Integers, FiniteSets, Sequences, TLC

VARIABLES
    GameState,       \* bool GameState (line 721)
    selectedSphere,  \* int selectedSphere (line 738)
    collider,        \* bool collider (line 741)
    start,           \* std::clock_t start (line 744), in seconds
    score,           \* int score (line 748)
    shaderID,        \* ColorSphereScene::shaderID (line 621)
    clk,             \* what std::clock() reads in the current call, in seconds
    inp,             \* what the VR runtime returns in the current call
    pc,              \* "poll": the runtime moves on; "render": renderScene
                     \* runs; "done": renderScene has returned; "picked":
                     \* the first of two calls of random_Highlight has
                     \* returned; inside random_Highlight: "seed" (lines
                     \* 932-933, 935-936), "test" (line 934), "returned"
    running,         \* the frame loop of GlfwApp::run is still iterating
    lastTarget,      \* history: the sphere most recently selected by a pick
    lastTouch,       \* history: a query of line 841 or 870 succeeded in the
                     \* latest call and returned the trigger as touched
    wallTime,        \* what time(NULL) reads, in seconds (lines 932, 935)
    random_number,   \* int random_number of random_Highlight (line 933)
    eye,             \* ovrEyeType eye of ovr::for_each_eye (line 567): the
                     \* eye the current call of renderScene draws for
    highlighted      \* the spheres that the latest pass of the draw loop
                     \* has drawn with highlightID (lines 665, 919)

vars == <<GameState, selectedSphere, collider, start, score, shaderID,
          clk, inp, pc, running, lastTarget, lastTouch, wallTime,
          random_number, eye, highlighted>>

(* The variables that only the statement-level model of random_Highlight   *)
(* moves; where random_Highlight is one step they stay as they are.        *)
drawVars == <<wallTime, random_number>>

-----------------------------------------------------------------------------
(* Program constants *)

NUM_SPHERES == 125

NONE == -1

THRESHOLD == 55

GAME_SECONDS == 60

(* Bounds of the model *)

MaxScore == 2

MaxClock == 60

(* The wall-clock seconds the statement-level model of random_Highlight    *)
(* runs in: a call is entered in one of the MaxSeconds seconds that start  *)
(* at FirstSecond, and time(NULL) is followed up to the second after them. *)
FirstSecond == 1520000000

MaxSeconds == 8

(* By how much std::clock() advances between two calls: not at all, to     *)
(* just below the minute, to the minute.                                   *)
ClockSteps == {0, GAME_SECONDS - 1, GAME_SECONDS}

(* Distances just below, at and just above the threshold. *)
DistSamples == {THRESHOLD - 1, THRESHOLD, THRESHOLD + 1}

Spheres == 0 .. (NUM_SPHERES - 1)

(* What the VR runtime returns during one renderScene call:                *)
(*   startQuery  OVR_SUCCESS of the ovr_GetInputState of line 841          *)
(*   hitQuery    OVR_SUCCESS of the ovr_GetInputState of line 870          *)
(*   touch       inputState.Touches & ovrTouch_RIndexTrigger               *)
(*   dist        the distance computed at lines 864-866                    *)
Inputs == [startQuery : BOOLEAN, hitQuery : BOOLEAN, touch : BOOLEAN,
           dist : DistSamples]

NoInput == [startQuery |-> FALSE, hitQuery |-> FALSE, touch |-> FALSE,
            dist |-> THRESHOLD + 1]

-----------------------------------------------------------------------------
(* The members of ExampleApp that renderScene reads and writes, as a record *)

cur == [GameState |-> GameState, selectedSphere |-> selectedSphere,
        collider |-> collider, start |-> start, score |-> score,
        shaderID |-> shaderID, highlighted |-> highlighted]

(* rand() % 125 *)
Draws == 0 .. 124

(* random_Highlight with the while loop of lines 934-937 left out. *)
random_Highlight_NoRedraw(s) ==
    { [s EXCEPT !.selectedSphere = r, !.collider = FALSE] : r \in Draws }

(* random_Highlight with the score++ of line 905 moved into it. *)
random_Highlight_Scoring(s) ==
    { [s EXCEPT !.selectedSphere = r, !.collider = FALSE,
                !.score = s.score + 1] :
        r \in {x \in Draws : x # s.selectedSphere} }

(* random_Highlight: draw until the draw differs from selectedSphere, then *)
(* store it and clear collider.  The set of the states it can return in.   *)
random_Highlight(s) ==
    { [s EXCEPT !.selectedSphere = r, !.collider = FALSE] :
        r \in {x \in Draws : x # s.selectedSphere} }

(* GameStart without the call of random_Highlight of line 850. *)
GameStart_NoPick(s, i, now) ==
    IF i.startQuery /\ s.GameState = FALSE /\ i.touch
    THEN { [s EXCEPT !.GameState = TRUE, !.start = now, !.score = 0] }
    ELSE {s}

(* GameStart without the test GameState == false of line 841. *)
GameStart_NoIdleGuard(s, i, now) ==
    IF i.startQuery /\ i.touch
    THEN { [t EXCEPT !.score = 0] :
             t \in random_Highlight([s EXCEPT !.GameState = TRUE,
                                              !.start = now]) }
    ELSE {s}

(* GameStart without start = std::clock() of line 847. *)
GameStart_NoTimer(s, i, now) ==
    IF i.startQuery /\ s.GameState = FALSE /\ i.touch
    THEN { [t EXCEPT !.score = 0] :
             t \in random_Highlight([s EXCEPT !.GameState = TRUE]) }
    ELSE {s}

(* Lines 841-855: the trigger starts a round while no round is on. *)
GameStart(s, i, now) ==
    IF i.startQuery /\ s.GameState = FALSE /\ i.touch
    THEN { [t EXCEPT !.score = 0] :
             t \in random_Highlight([s EXCEPT !.GameState = TRUE,
                                              !.start = now]) }
    ELSE {s}

(* CollisionTest with dist <= 0.055f at line 871. *)
CollisionTest_Inclusive(s, i) ==
    IF s.GameState /\ i.hitQuery /\ i.dist <= THRESHOLD /\ i.touch
    THEN [s EXCEPT !.collider = TRUE]
    ELSE s

(* CollisionTest without the OVR_SUCCESS guard of line 870. *)
CollisionTest_NoQueryCheck(s, i) ==
    IF s.GameState /\ i.dist < THRESHOLD /\ i.touch
    THEN [s EXCEPT !.collider = TRUE]
    ELSE s

(* Lines 858-874: the centre-distance test sets collider. *)
CollisionTest(s, i) ==
    IF s.GameState /\ i.hitQuery /\ i.dist < THRESHOLD /\ i.touch
    THEN [s EXCEPT !.collider = TRUE]
    ELSE s

(* GameOver with duration > 60 at line 879. *)
GameOver_Strict(s, now) ==
    IF s.GameState /\ now - s.start > GAME_SECONDS
    THEN [s EXCEPT !.GameState = FALSE, !.start = 0,
                   !.selectedSphere = NONE, !.score = 0]
    ELSE s

(* GameOver without score = 0 of line 889. *)
GameOver_KeepScore(s, now) ==
    IF s.GameState /\ now - s.start >= GAME_SECONDS
    THEN [s EXCEPT !.GameState = FALSE, !.start = 0,
                   !.selectedSphere = NONE]
    ELSE s

(* Lines 876-890: the round ends after one minute. *)
GameOver(s, now) ==
    IF s.GameState /\ now - s.start >= GAME_SECONDS
    THEN [s EXCEPT !.GameState = FALSE, !.start = 0,
                   !.selectedSphere = NONE, !.score = 0]
    ELSE s

(* SelectedBody with score++ of line 905 moved behind the if/else. *)
SelectedBody_ScoreAlways(s) ==
    IF s.collider
    THEN { [t EXCEPT !.score = s.score + 1] :
             t \in random_Highlight([s EXCEPT !.shaderID = "unhighlight"]) }
    ELSE { [s EXCEPT !.shaderID = "highlight", !.score = s.score + 1] }

(* Lines 899-911, the body of the draw loop at i = selectedSphere. *)
SelectedBody(s) ==
    IF s.collider
    THEN { [t EXCEPT !.score = s.score + 1] :
             t \in random_Highlight([s EXCEPT !.shaderID = "unhighlight"]) }
    ELSE { [s EXCEPT !.shaderID = "highlight"] }

(* sphereScene->render(..., i, ...) of line 919 for i = from .. to, with    *)
(* the shader as it is: ColorSphereScene::render draws with shaderID       *)
(* (line 665).                                                             *)
RenderRange(s, from, to) ==
    [s EXCEPT !.highlighted =
        IF s.shaderID = "highlight" THEN @ \cup (from .. to) ELSE @]

(* Lines 895-920, the draw loop from index i on.  While GameState holds,   *)
(* an iteration with i # selectedSphere only calls unhighlight() and draws *)
(* the sphere unhighlighted, so the loop is advanced to the next index     *)
(* that equals selectedSphere; the iterations left after it end with       *)
(* shaderID = unhighlight.  Without GameState no iteration writes the      *)
(* shader and every sphere is drawn with the shader as it is.              *)
RECURSIVE RenderLoop(_, _)
RenderLoop(i, s) ==
    IF i >= NUM_SPHERES
    THEN {s}
    ELSE IF ~s.GameState
    THEN { RenderRange(s, i, NUM_SPHERES - 1) }
    ELSE IF s.selectedSphere >= i /\ s.selectedSphere < NUM_SPHERES
         THEN UNION { RenderLoop(s.selectedSphere + 1,
                                 RenderRange(t, s.selectedSphere,
                                             s.selectedSphere)) :
                        t \in SelectedBody(s) }
         ELSE { [s EXCEPT !.shaderID = "unhighlight"] }

(* The draw loop of one call; highlighted collects what this pass draws. *)
RenderSpheres(s) == RenderLoop(0, [s EXCEPT !.highlighted = {}])

(* renderScene with the collision test of lines 858-874 placed behind the *)
(* draw loop.                                                              *)
renderScene_TestAfterDraw(s, i, now) ==
    UNION { { CollisionTest(u, i) : u \in RenderSpheres(GameOver(t, now)) } :
              t \in GameStart(s, i, now) }

(* renderScene, lines 791-926: the states one call can end in. *)
renderScene(s, i, now) ==
    UNION { RenderSpheres(GameOver(CollisionTest(t, i), now)) :
              t \in GameStart(s, i, now) }

-----------------------------------------------------------------------------
(* ExampleApp() and the member initialisers.  collider has no initialiser. *)
Init ==
    /\ GameState = FALSE
    /\ selectedSphere = NONE
    /\ collider \in BOOLEAN
    /\ start = 0
    /\ score = 0
    /\ shaderID = "unhighlight"
    /\ clk = 0
    /\ inp = NoInput
    /\ pc = "poll"
    /\ running = TRUE
    /\ lastTarget = NONE
    /\ lastTouch = FALSE
    /\ wallTime = FirstSecond
    /\ random_number = NONE
    /\ eye = "left"
    /\ highlighted = {}

(* Between two calls the clock advances and the runtime samples the       *)
(* controller again: the values the next call of renderScene will read    *)
(* from std::clock() and ovr_GetInputState.                                *)
Poll ==
    /\ running
    /\ pc = "poll"
    /\ \E d \in ClockSteps, i \in Inputs :
         /\ clk + d <= MaxClock
         /\ clk' = clk + d
         /\ inp' = i
    /\ pc' = "render"
    /\ UNCHANGED <<GameState, selectedSphere, collider, start, score,
                   shaderID, running, lastTarget, lastTouch>>
    /\ UNCHANGED drawVars
    /\ UNCHANGED eye
    /\ UNCHANGED highlighted

(* One call of renderScene from RiftApp::draw. *)
RenderScene ==
    /\ running
    /\ pc = "render"
    /\ \E t \in renderScene(cur, inp, clk) :
         /\ t.score <= MaxScore
         /\ GameState' = t.GameState
         /\ selectedSphere' = t.selectedSphere
         /\ collider' = t.collider
         /\ start' = t.start
         /\ score' = t.score
         /\ shaderID' = t.shaderID
         /\ highlighted' = t.highlighted
         /\ lastTarget' = IF t.selectedSphere # NONE
                          THEN t.selectedSphere ELSE lastTarget
         /\ lastTouch' = (inp.touch /\
                            (inp.startQuery \/ (inp.hitQuery /\ GameState)))
    /\ pc' = "done"
    /\ UNCHANGED <<clk, inp, running>>
    /\ UNCHANGED drawVars
    /\ UNCHANGED eye

(* renderScene returns (line 926): what the call read from the runtime is *)
(* gone, the members of ExampleApp stay.                                   *)
EndCall ==
    /\ pc = "done"
    /\ inp' = NoInput
    /\ pc' = "poll"
    /\ UNCHANGED <<GameState, selectedSphere, collider, start, score,
                   shaderID, clk, running, lastTarget, lastTouch>>
    /\ UNCHANGED drawVars
    /\ UNCHANGED eye
    /\ UNCHANGED highlighted

(* glfwWindowShouldClose(window) ends the loop of GlfwApp::run. *)
CloseWindow ==
    /\ running
    /\ pc = "poll"
    /\ running' = FALSE
    /\ UNCHANGED <<GameState, selectedSphere, collider, start, score,
                   shaderID, clk, inp, pc, lastTarget, lastTouch>>
    /\ UNCHANGED drawVars
    /\ UNCHANGED eye
    /\ UNCHANGED highlighted

Next == Poll \/ RenderScene \/ EndCall \/ CloseWindow

Spec == Init /\ [][Next]_vars

-----------------------------------------------------------------------------
(* The calls of renderScene grouped in frames: RiftApp::draw (lines        *)
(* 556-587) calls renderScene once for the left eye and once for the right *)
(* eye (lines 567-573); GlfwApp::update (lines 292-293) is empty, so these *)
(* two calls are all that a frame does to the members of ExampleApp.       *)

(* The left-eye call has returned; for_each_eye goes on to the right eye. *)
NextEye ==
    /\ pc = "done"
    /\ eye = "left"
    /\ eye' = "right"
    /\ inp' = NoInput
    /\ pc' = "poll"
    /\ UNCHANGED <<GameState, selectedSphere, collider, start, score,
                   shaderID, clk, running, lastTarget, lastTouch>>
    /\ UNCHANGED drawVars
    /\ UNCHANGED highlighted

(* The right-eye call has returned; draw submits the frame and returns,    *)
(* the loop of GlfwApp::run starts the next frame with the left eye.       *)
EndFrame ==
    /\ pc = "done"
    /\ eye = "right"
    /\ eye' = "left"
    /\ inp' = NoInput
    /\ pc' = "poll"
    /\ UNCHANGED <<GameState, selectedSphere, collider, start, score,
                   shaderID, clk, running, lastTarget, lastTouch>>
    /\ UNCHANGED drawVars
    /\ UNCHANGED highlighted

(* glfwWindowShouldClose(window) is tested between two frames (line 214). *)
CloseBetweenFrames == eye = "left" /\ CloseWindow

NextFrame == Poll \/ RenderScene \/ NextEye \/ EndFrame \/ CloseBetweenFrames

SpecFrame == Init /\ [][NextFrame]_vars

-----------------------------------------------------------------------------
(* random_Highlight on its own: every state in which lines 850 and 903     *)
(* call it (GameState already set; no target yet and score 0 at line 850,  *)
(* a target and any score at line 903), and every state a pick leaves.     *)
InitPick ==
    /\ GameState = TRUE
    /\ selectedSphere \in {NONE} \cup Spheres
    /\ collider \in BOOLEAN
    /\ start = 0
    /\ score \in 0 .. MaxScore
    /\ selectedSphere = NONE => score = 0
    /\ shaderID = "unhighlight"
    /\ clk = 0
    /\ inp = NoInput
    /\ pc = "render"
    /\ running = TRUE
    /\ lastTarget = NONE
    /\ lastTouch = FALSE
    /\ wallTime = FirstSecond
    /\ random_number = NONE
    /\ eye = "left"
    /\ highlighted = {}

Pick ==
    /\ \E t \in random_Highlight(cur) :
         /\ GameState' = t.GameState
         /\ selectedSphere' = t.selectedSphere
         /\ collider' = t.collider
         /\ start' = t.start
         /\ score' = t.score
         /\ shaderID' = t.shaderID
         /\ lastTarget' = t.selectedSphere
    /\ UNCHANGED <<clk, inp, pc, running, lastTouch>>
    /\ UNCHANGED drawVars
    /\ UNCHANGED eye
    /\ UNCHANGED highlighted

SpecPick == InitPick /\ [][Pick]_vars

(* Two calls of random_Highlight in a row, with nothing between them (as   *)
(* line 850 followed by line 903 in one call of renderScene, without the   *)
(* writes between the two).  pc = "picked" after the first call has        *)
(* returned, "done" after the second; lastTarget keeps what the first call *)
(* selected.                                                               *)
FirstPick ==
    /\ pc = "render"
    /\ \E t \in random_Highlight(cur) :
         /\ GameState' = t.GameState
         /\ selectedSphere' = t.selectedSphere
         /\ collider' = t.collider
         /\ start' = t.start
         /\ score' = t.score
         /\ shaderID' = t.shaderID
         /\ lastTarget' = t.selectedSphere
    /\ pc' = "picked"
    /\ UNCHANGED <<clk, inp, running, lastTouch>>
    /\ UNCHANGED drawVars
    /\ UNCHANGED eye
    /\ UNCHANGED highlighted

SecondPick ==
    /\ pc = "picked"
    /\ \E t \in random_Highlight(cur) :
         /\ GameState' = t.GameState
         /\ selectedSphere' = t.selectedSphere
         /\ collider' = t.collider
         /\ start' = t.start
         /\ score' = t.score
         /\ shaderID' = t.shaderID
    /\ pc' = "done"
    /\ UNCHANGED <<clk, inp, running, lastTarget, lastTouch>>
    /\ UNCHANGED drawVars
    /\ UNCHANGED eye
    /\ UNCHANGED highlighted

NextPickTwice == FirstPick \/ SecondPick

SpecPickTwice == InitPick /\ [][NextPickTwice]_vars

-----------------------------------------------------------------------------
(* random_Highlight statement by statement (lines 929-945), with the wall  *)
(* clock running beside it.                                                *)

(* srand(seed); rand() of the Microsoft C runtime the program is built     *)
(* against (Windows.h, line 26): the state becomes seed, rand() sets it to *)
(* state * 214013 + 2531011 modulo 2^32 and returns bits 16..30 of it.     *)
(* The product is taken on the 16-bit halves of the seed, with             *)
(* 214013 = 3 * 2^16 + 17405 and 2531011 = 38 * 2^16 + 40643.              *)
SeededRand(seed) ==
    LET th == (seed \div 65536) % 65536
        tl == seed % 65536
        hi == (th * 17405 + tl * 3 + 38
                 + (tl * 17405 + 40643) \div 65536) % 65536
    IN  hi % 32768

(* SeededDraw for a set of one sphere: rand() % 1. *)
SeededDraw_Singleton(seed) == SeededRand(seed) % 1

(* srand(time(NULL)); rand() % 125 (lines 932-933 and 935-936). *)
SeededDraw(seed) == SeededRand(seed) % 125

(* A call of random_Highlight is entered: at line 850 with no target, at   *)
(* line 903 with a target.  lastTarget is the target at the entry.         *)
InitDraw ==
    /\ GameState = TRUE
    /\ selectedSphere \in {NONE} \cup Spheres
    /\ collider \in BOOLEAN
    /\ start = 0
    /\ score = 0
    /\ shaderID = "unhighlight"
    /\ clk = 0
    /\ inp = NoInput
    /\ pc = "seed"
    /\ running = TRUE
    /\ lastTarget = selectedSphere
    /\ lastTouch = FALSE
    /\ wallTime \in FirstSecond .. (FirstSecond + MaxSeconds - 1)
    /\ random_number = NONE
    /\ eye = "left"
    /\ highlighted = {}

(* Lines 932-933 and 935-936: seed from the current second and draw. *)
SeedAndDraw ==
    /\ pc = "seed"
    /\ random_number' = SeededDraw(wallTime)
    /\ pc' = "test"
    /\ UNCHANGED <<GameState, selectedSphere, collider, start, score,
                   shaderID, clk, inp, running, lastTarget, lastTouch,
                   wallTime, eye, highlighted>>

(* Line 934, the loop condition holds: draw again. *)
Redraw ==
    /\ pc = "test"
    /\ random_number = selectedSphere
    /\ pc' = "seed"
    /\ UNCHANGED <<GameState, selectedSphere, collider, start, score,
                   shaderID, clk, inp, running, lastTarget, lastTouch,
                   wallTime, random_number, eye, highlighted>>

(* Line 934, the loop condition fails: lines 938-944 and the return. *)
StoreAndReturn ==
    /\ pc = "test"
    /\ random_number # selectedSphere
    /\ selectedSphere' = random_number
    /\ collider' = FALSE
    /\ pc' = "returned"
    /\ UNCHANGED <<GameState, start, score, shaderID, clk, inp, running,
                   lastTarget, lastTouch, wallTime, random_number, eye,
                   highlighted>>

(* The wall clock reaches the next second.  It is followed through the     *)
(* seconds in which a call can be entered, and one second further for a    *)
(* call that is in the loop with the draw of the current second equal to   *)
(* its target.                                                             *)
Tick ==
    /\ \/ wallTime < FirstSecond + MaxSeconds - 1
       \/ /\ wallTime < FirstSecond + MaxSeconds
          /\ pc # "returned"
          /\ SeededDraw(wallTime) = selectedSphere
    /\ wallTime' = wallTime + 1
    /\ UNCHANGED <<GameState, selectedSphere, collider, start, score,
                   shaderID, clk, inp, pc, running, lastTarget, lastTouch,
                   random_number, eye, highlighted>>

NextDraw == SeedAndDraw \/ Redraw \/ StoreAndReturn \/ Tick

(* The statements of the call are executed one after the other, and the    *)
(* wall clock advances.                                                    *)
SpecDraw ==
    /\ InitDraw
    /\ [][NextDraw]_vars
    /\ WF_vars(SeedAndDraw)
    /\ WF_vars(Redraw)
    /\ WF_vars(StoreAndReturn)
    /\ WF_vars(Tick)

-----------------------------------------------------------------------------
(* Properties *)

(* The hit condition of line 871 on the values the current call reads. *)
HitCondition == inp.hitQuery /\ inp.dist < THRESHOLD /\ inp.touch

(* The round is on and a minute has passed when the current call reads the *)
(* clock at line 877.                                                      *)
TimeIsUp == GameState /\ clk - start >= GAME_SECONDS

(* The step registers a hit: the hit is counted in the draw loop, or the   *)
(* round times out with collider left set.                                 *)
Registered ==
    \/ score' = score + 1
    \/ GameState /\ ~GameState' /\ collider'

(* C1: whenever the round is Active, selectedSphere is a valid sphere      *)
(* index in 0..124, never -1, at the end of every call and at the read of  *)
(* spheres_positions[selectedSphere] of line 861 inside a call.            *)
C1_TargetValid ==
    /\ GameState => selectedSphere \in Spheres
    /\ pc = "render" =>
          \A t \in GameStart(cur, inp, clk) :
              t.GameState => t.selectedSphere \in Spheres

C1_Witness ==
    pc = "done" /\ GameState /\ score = MaxScore /\ clk > start

(* C2: every completed call of random_Highlight leaves selectedSphere      *)
(* different from its value immediately before the call, and in 0..124.    *)
C2_PickChangesTarget ==
    [][selectedSphere' # selectedSphere /\ selectedSphere' \in Spheres]_vars

C2_Witness ==
    lastTarget # NONE /\ selectedSphere = lastTarget /\ ~collider

(* C3, as claimed: every newly selected target differs from the target     *)
(* selected before it, also the first target of a round compared with the  *)
(* last target of the round before.  (A call that starts a round and       *)
(* counts a hit picks twice; its first pick is not visible in the step.)   *)
C3_Original ==
    [][(/\ pc = "render"
        /\ selectedSphere' # NONE
        /\ selectedSphere' # selectedSphere
        /\ ~(~GameState /\ score' = 1))
       => selectedSphere' # lastTarget]_vars

(* C3, amended: within a round every newly selected target differs from    *)
(* the target selected before it, and the first target of a round differs  *)
(* from "none".                                                            *)
C3_WithinRound ==
    [][pc = "render" =>
         /\ (GameState /\ GameState' /\ score' # score) =>
               /\ lastTarget = selectedSphere
               /\ selectedSphere' \in Spheres
               /\ selectedSphere' # lastTarget
         /\ (~GameState /\ GameState') => selectedSphere' \in Spheres]_vars

C3_Witness ==
    /\ pc = "done" /\ GameState /\ score = MaxScore
    /\ lastTarget = selectedSphere /\ HitCondition

(* C4: over the calls of renderScene the score never decreases while the   *)
(* round stays Active, and every Idle -> Active transition sets it to 0    *)
(* (line 852); a hit counted later in the starting call makes it 1.        *)
C4_ScoreMonotoneAndReset ==
    [][pc = "render" =>
         /\ (GameState /\ GameState') => score' >= score
         /\ (~GameState /\ GameState') =>
               score' = IF HitCondition THEN 1 ELSE 0]_vars

C4_Witness ==
    /\ pc = "done" /\ GameState /\ score = 0 /\ start = clk
    /\ clk >= GAME_SECONDS /\ inp.startQuery /\ inp.touch /\ ~HitCondition

(* C5: a call takes the round from Active to Idle if and only if the round *)
(* is Active and at least 60 seconds have passed since the round started;  *)
(* a call made while Idle resets nothing unless it starts a round.         *)
C5_TimeoutIffElapsed ==
    [][pc = "render" =>
         /\ (GameState /\ ~GameState') <=> TimeIsUp
         /\ ~GameState =>
               \/ GameState'
               \/ /\ selectedSphere' = selectedSphere
                  /\ score' = score
                  /\ start' = start]_vars

C5_Witness ==
    /\ pc = "done" /\ ~GameState /\ selectedSphere = NONE
    /\ lastTarget # NONE /\ clk = GAME_SECONDS

(* C6: a call in which the round is Active and 60 seconds have passed ends *)
(* Idle with score 0 and no target, also when the hit condition holds in   *)
(* that call: the hit is not counted and no new target is picked.          *)
C6_TimeoutBeatsHit ==
    [][(pc = "render" /\ TimeIsUp) =>
         /\ ~GameState'
         /\ score' = 0
         /\ selectedSphere' = NONE
         /\ lastTarget' = lastTarget]_vars

C6_Witness ==
    /\ pc = "done" /\ ~GameState /\ lastTarget # NONE /\ HitCondition
    /\ collider /\ score = 0 /\ selectedSphere = NONE

(* C7: in a call where the round is Active, does not time out and the hit  *)
(* condition holds, the score grows by exactly 1, a target different from  *)
(* the one before is selected and collider ends false; in a call of an     *)
(* Active round without the hit condition score and target are unchanged.  *)
C7_HitScoresOnce ==
    [][pc = "render" =>
         /\ ((GameState \/ (inp.startQuery /\ inp.touch))
               /\ ~TimeIsUp /\ HitCondition) =>
               /\ score' = score + 1
               /\ selectedSphere' \in Spheres
               /\ selectedSphere' # selectedSphere
               /\ ~collider'
         /\ (GameState /\ ~TimeIsUp /\ ~HitCondition) =>
               /\ score' = score
               /\ selectedSphere' = selectedSphere]_vars

C7_Witness ==
    /\ pc = "done" /\ GameState /\ HitCondition /\ score = 1
    /\ ~collider /\ clk > start

(* C8: the comparison with the threshold is strict: a distance below the   *)
(* threshold with the trigger touched registers a hit, a distance equal to *)
(* or above the threshold never does, whatever the trigger state.          *)
C8_StrictThreshold ==
    [][pc = "render" =>
         /\ ((GameState \/ GameState') /\ HitCondition) => Registered
         /\ inp.dist >= THRESHOLD => ~Registered]_vars

C8_Witness ==
    /\ pc = "done" /\ GameState /\ clk > start /\ score = 0 /\ ~collider
    /\ inp.dist = THRESHOLD /\ inp.touch /\ inp.hitQuery

(* C9, as claimed: a round starts only when the trigger goes from not      *)
(* touched to touched, not because it is still held: not in a call that    *)
(* follows a call which already read the trigger as touched.               *)
C9_Original ==
    [][(pc = "render" /\ ~GameState /\ GameState') =>
         (~lastTouch /\ inp.touch)]_vars

(* C9, amended: a call made while Idle starts a round exactly when its     *)
(* query succeeds and reports the trigger touched (the level, not a        *)
(* change); the start sets score to 0, the timer to 0 and selects a target *)
(* different from "none".                                                  *)
C9_LevelTriggered ==
    [][pc = "render" =>
         /\ (~GameState /\ GameState') <=>
               (~GameState /\ inp.startQuery /\ inp.touch)
         /\ (~GameState /\ GameState') =>
               /\ score' = IF HitCondition THEN 1 ELSE 0
               /\ start' = clk
               /\ selectedSphere' \in Spheres]_vars

C9_Witness ==
    /\ pc = "done" /\ GameState /\ start = clk /\ clk = GAME_SECONDS - 1
    /\ score = 0 /\ inp.startQuery /\ inp.touch

(* C10: a failed ovr_GetInputState is no input: a call whose start query   *)
(* fails starts no round, a call whose hit query fails registers no hit,   *)
(* a call in which both fail changes score and target only through the     *)
(* timeout, and after every call the frame loop goes on.                   *)
C10_FailedQueryIsNoInput ==
    [][pc = "render" =>
         /\ ~inp.startQuery => ~(~GameState /\ GameState')
         /\ ~inp.hitQuery => ~Registered
         /\ (~inp.startQuery /\ ~inp.hitQuery) =>
               IF TimeIsUp
               THEN ~GameState' /\ score' = 0 /\ selectedSphere' = NONE
               ELSE /\ GameState' = GameState
                    /\ score' = score
                    /\ selectedSphere' = selectedSphere
                    /\ collider' = collider
         /\ running'
         /\ pc' = "done"]_vars

C10_Witness ==
    /\ pc = "done" /\ running /\ GameState /\ clk > start /\ score = 0
    /\ ~inp.startQuery /\ ~inp.hitQuery /\ inp.touch
    /\ inp.dist < THRESHOLD

(* C11: a call of random_Highlight writes selectedSphere and collider only: *)
(* score, GameState, start and the shader are as before the call, collider *)
(* is false and the target is a sphere different from the one before the   *)
(* call; so over two calls in a row the score is unchanged and each of the *)
(* two targets differs from the one before it.                             *)
C11_PickFrame ==
    [][/\ score' = score
       /\ GameState' = GameState
       /\ start' = start
       /\ shaderID' = shaderID
       /\ ~collider'
       /\ selectedSphere' \in Spheres
       /\ selectedSphere' # selectedSphere
       /\ pc = "picked" => (selectedSphere = lastTarget
                             /\ selectedSphere' # lastTarget')]_vars

C11_Witness ==
    /\ pc = "done" /\ score = MaxScore /\ GameState /\ ~collider
    /\ lastTarget \in Spheres /\ selectedSphere \in Spheres
    /\ selectedSphere # lastTarget

(* C12: every call of random_Highlight returns: the loop of lines 934-937, *)
(* which draws the same number as long as time(NULL) stays in one second,  *)
(* is left once the wall clock has advanced, with a sphere selected that   *)
(* differs from the target at the entry.                                   *)
C12_PickTerminates ==
    <>(/\ pc = "returned"
       /\ selectedSphere \in Spheres
       /\ selectedSphere # lastTarget
       /\ ~collider)

(* The call has returned after redrawing: the target at the entry was the  *)
(* draw of the second before the one it returned in.                       *)
C12_Witness ==
    /\ pc = "returned"
    /\ wallTime > FirstSecond
    /\ lastTarget = SeededDraw(wallTime - 1)
    /\ selectedSphere = SeededDraw(wallTime)
    /\ random_number = selectedSphere

(* C13, as claimed: the round state is not written while a frame is drawn: *)
(* GameState, selectedSphere and score at the end of the right-eye call of *)
(* a frame are what they were at the end of its left-eye call.             *)
C13_Original ==
    [][(pc = "render" /\ eye = "right") =>
         /\ GameState' = GameState
         /\ selectedSphere' = selectedSphere
         /\ score' = score]_vars

(* C14, as claimed: after every pass of the draw loop, the spheres drawn   *)
(* highlighted in it are at most the selected target if the round is       *)
(* Active, and none if the round is Idle.                                  *)
C14_Original ==
    pc = "done" =>
       IF GameState
       THEN highlighted \subseteq {selectedSphere}
       ELSE highlighted = {}

(* C15: collider carries no hit into a later call or a later round: after  *)
(* every call that leaves the round Active collider is false, the score    *)
(* grows only in a call that itself detects a hit, and a call that starts  *)
(* a round without detecting a hit ends with score 0 also when collider    *)
(* was left true before it.                                                *)
C15_NoCarriedHit ==
    [][pc = "render" =>
         /\ GameState' => ~collider'
         /\ score' = score + 1 => HitCondition
         /\ (~GameState /\ GameState' /\ ~HitCondition) => score' = 0]_vars

(* A round has timed out in a call that detected a hit, collider is still  *)
(* true, and a call that starts the next round without a hit is made.      *)
C15_Witness ==
    /\ pc = "render" /\ ~GameState /\ collider /\ lastTarget # NONE
    /\ selectedSphere = NONE /\ inp.startQuery /\ inp.touch
    /\ ~HitCondition

=============================================================================
